---- MODULE Spec2Model ----
(***************************************************************************)
(* Board assembler and serializer of the kanban markdown parser            *)
(* (astToUnhydratedBoard, laneToMd, boardToMd).                            *)
(*                                                                         *)
(* A document is the sequence of top-level blocks of its syntax tree.      *)
(* Lane objects live in a heap keyed by id, as JavaScript objects shared   *)
(* by reference between the lane stack, the top-level array and the        *)
(* children arrays of their parents.                                       *)
(***************************************************************************)
EXTENDS Integers, Sequences, FiniteSets, TLC

\* ------------------------------------------------------------------ bounds
MaxBlocks == 3      \* top-level blocks of a source document
MaxDepth == 3       \* deepest heading drawn for a source document
MaxItems == 2       \* list items of a list block
MaxTokens == 2      \* tokens of the content of a list item

\* --------------------------------------------------------------- constants
NoId == 0                \* parentId: undefined
Undefined == 0           \* blockId: undefined
MaxHeadingDepth == 6     \* an ATX heading has at most six markers
ArchiveText == "Archive"                \* t('Archive')
CompleteText == "Complete"              \* t('Complete')
SettingsMarker == "%% kanban:settings"
OtherText == "text"

VARIABLES root, index, lanes, heap, archive, laneStack, nextId, owner, pc,
          board, md, board2, md2, target, calls,
          settings, source, itemData, itemMd,
          viewState, boardSettings

vars == <<root, index, lanes, heap, archive, laneStack, nextId, owner, pc,
          board, md, board2, md2, target, calls,
          settings, source, itemData, itemMd,
          viewState, boardSettings>>

\* The variables of a run of astToUnhydratedBoard.
parserVars == <<root, index, lanes, heap, archive, laneStack, nextId, owner>>

\* The variables of the work on one item's text.
itemVars == <<settings, source, itemData, itemMd>>

\* The view's state and the board's settings, as far as collapsing goes.
uiVars == <<viewState, boardSettings>>

\* ------------------------------------------------------------------ blocks
Block(type, depth, text, items) ==
    [type |-> type, depth |-> depth, text |-> text, items |-> items]

Heading(depth, text) == Block("heading", depth, text, <<>>)
Paragraph(text) == Block("paragraph", 0, text, <<>>)
ThematicBreak == Block("thematicBreak", 0, "", <<>>)
List(items) == Block("list", 0, "", items)

\* A list item node: its text and the character between the brackets.
ListItem(text, checkChar) == [text |-> text, checkChar |-> checkChar]

\* The shape of a block, before its list items get their texts.
Shapes ==
    {Heading(d, t) : d \in 1..MaxDepth, t \in {ArchiveText, "A"}}
    \cup {Block("list", n, "", <<>>) : n \in 1..MaxItems}
    \cup {Paragraph(CompleteText), Paragraph(SettingsMarker), ThematicBreak}

\* The k-th item of the list that is block i: a text no other item has, the
\* second item of a list checked.
ItemText(i, k) == i * (MaxItems + 2) + k

SourceItem(i, k) == ListItem(ItemText(i, k), IF k = 2 THEN "x" ELSE " ")

Document(shapes) ==
    [i \in 1..Len(shapes) |->
        IF shapes[i].type = "list"
        THEN List([k \in 1..shapes[i].depth |-> SourceItem(i, k)])
        ELSE shapes[i]]

Documents ==
    {Document(s) : s \in UNION {[1..n -> Shapes] : n \in 0..MaxBlocks}}

\* ------------------------------------------------------------- board model
ItemData(titleRaw, checked, checkChar) ==
    [titleRaw |-> titleRaw, checked |-> checked, checkChar |-> checkChar]

\* A lane child that is a nested lane carries no item data.
NoData == ItemData(0, FALSE, " ")

\* An element of a children array: an item (with its data) or a reference to
\* the lane object heap[id].
Child(type, id, data) == [type |-> type, id |-> id, data |-> data]

isLane(item) == item.type = "lane"

isItem(item) == item.type = "item"

getNestedLanes(lane) == SelectSeq(lane.children, isLane)

getNestedItems(lane) == SelectSeq(lane.children, isItem)

isParentLane(lane) == \E i \in 1..Len(lane.children) : isLane(lane.children[i])

\* ------------------------------------------------------------ item records
listItemToItemData(item) ==
    LET checked == item.checkChar # " "
    IN  ItemData(item.text, checked, IF checked THEN item.checkChar ELSE " ")

\* The items of a list block, the first of them getting the id firstId.
ListToItems(list, firstId) ==
    [k \in 1..Len(list.items) |->
        Child("item", firstId + k - 1, listItemToItemData(list.items[k]))]

\* ------------------------------------------------------------- ast helpers
getPrevSibling(children, currentIndex) ==
    IF currentIndex <= 1 THEN 0 ELSE currentIndex - 1

\* Faulty variant of isArchiveLane: the archive title alone decides.
isArchiveLaneByTitle(child, children, currentIndex) ==
    child.type = "heading" /\ child.text = ArchiveText

isArchiveLane(child, children, currentIndex) ==
    IF child.type # "heading" \/ child.text # ArchiveText
    THEN FALSE
    ELSE LET prev == getPrevSibling(children, currentIndex)
         IN  prev # 0 /\ children[prev].type = "thematicBreak"

\* Faulty variant of ListScanCallback: the scan runs past a heading.
ListScanCallbackPastHeading(child, complete) ==
    IF child.type = "paragraph" /\ child.text = SettingsMarker
    THEN [continue |-> FALSE, complete |-> complete]
    ELSE IF child.type = "paragraph" /\ child.text = CompleteText
    THEN [continue |-> TRUE, complete |-> TRUE]
    ELSE [continue |-> TRUE, complete |-> complete]

\* Faulty variant of ListScanCallback: the complete marker is passed over.
ListScanCallbackNoComplete(child, complete) ==
    IF child.type = "heading"
    THEN [continue |-> FALSE, complete |-> complete]
    ELSE IF child.type = "paragraph" /\ child.text = SettingsMarker
    THEN [continue |-> FALSE, complete |-> complete]
    ELSE [continue |-> TRUE, complete |-> complete]

\* The callback astToUnhydratedBoard hands to getNextOfType: whether the scan
\* goes on past this block, and the shouldMarkItemsComplete it leaves.
ListScanCallback(child, complete) ==
    IF child.type = "heading"
    THEN [continue |-> FALSE, complete |-> complete]
    ELSE IF child.type = "paragraph" /\ child.text = SettingsMarker
    THEN [continue |-> FALSE, complete |-> complete]
    ELSE IF child.type = "paragraph" /\ child.text = CompleteText
    THEN [continue |-> TRUE, complete |-> TRUE]
    ELSE [continue |-> TRUE, complete |-> complete]

RECURSIVE ScanFrom(_, _, _)
ScanFrom(children, i, complete) ==
    IF i > Len(children)
    THEN [list |-> 0, complete |-> complete]
    ELSE IF children[i].type = "list"
    THEN [list |-> i, complete |-> complete]
    ELSE LET r == ListScanCallback(children[i], complete)
         IN  IF r.continue
             THEN ScanFrom(children, i + 1, r.complete)
             ELSE [list |-> 0, complete |-> r.complete]

\* The index of the first list after currentIndex that the callback lets the
\* scan reach (0 when there is none), and the flag the callback has set.
getNextOfType(children, currentIndex) == ScanFrom(children, currentIndex + 1, FALSE)

parseLaneTitle(title) == [title |-> title, maxItems |-> 0]

\* ---------------------------------------------------------- board assembler
HeadingLevel(child) == IF child.depth = 0 THEN 1 ELSE child.depth

\* Faulty variant of ShouldPop: only the lanes at a deeper level are popped.
ShouldPopDeeperOnly(entry, level) == entry.level > level

\* The loop condition on the top entry of the lane stack.
ShouldPop(entry, level) == entry.level >= level

RECURSIVE PopStack(_, _)
PopStack(stack, level) ==
    IF Len(stack) > 0 /\ ShouldPop(stack[Len(stack)], level)
    THEN PopStack(SubSeq(stack, 1, Len(stack) - 1), level)
    ELSE stack

\* Faulty variant of NewLane: parentId stays as the lane literal sets it.
NewLaneNoParent(laneId, title, shouldMarkItemsComplete, level, parentId, items) ==
    [id |-> laneId,
     title |-> parseLaneTitle(title).title,
     maxItems |-> parseLaneTitle(title).maxItems,
     shouldMarkItemsComplete |-> shouldMarkItemsComplete,
     level |-> level,
     isCollapsed |-> FALSE,
     parentId |-> NoId,
     children |-> items]

\* The lane object of a heading, with the parentId it has once the stack has
\* been consulted (NoId for a top-level lane).
NewLane(laneId, title, shouldMarkItemsComplete, level, parentId, items) ==
    [id |-> laneId,
     title |-> parseLaneTitle(title).title,
     maxItems |-> parseLaneTitle(title).maxItems,
     shouldMarkItemsComplete |-> shouldMarkItemsComplete,
     level |-> level,
     isCollapsed |-> FALSE,
     parentId |-> parentId,
     children |-> items]

\* Faulty variant of AddTopLevel: the new lane goes in front of the others.
AddTopLevelFirst(ls, laneId) == <<laneId>> \o ls

\* lanes.push(lane)
AddTopLevel(ls, laneId) == Append(ls, laneId)

ParserState(ls, hp, ar, stk, nid) ==
    [lanes |-> ls, heap |-> hp, archive |-> ar, laneStack |-> stk, nextId |-> nid]

EmptyHeap == [i \in {} |-> 0]

InitialParserState == ParserState(<<>>, EmptyHeap, <<>>, <<>>, 1)

IsArchiveSection(children, i) ==
    /\ isArchiveLane(children[i], children, i)
    /\ getNextOfType(children, i).list # 0

\* One iteration of root.children.forEach on the block at index i.
BlockStep(st, children, i) ==
    LET child == children[i]
        scan == getNextOfType(children, i)
        level == HeadingLevel(child)
        laneId == st.nextId
        items == IF scan.list # 0
                 THEN ListToItems(children[scan.list], st.nextId + 1)
                 ELSE <<>>
        popped == PopStack(st.laneStack, level)
        parentId == IF Len(popped) > 0 THEN popped[Len(popped)].lane ELSE NoId
        lane == NewLane(laneId, child.text, scan.complete, level, parentId, items)
        newIds == {laneId} \cup {items[k].id : k \in 1..Len(items)}
    IN  IF child.type # "heading"
        THEN st
        ELSE IF IsArchiveSection(children, i)
        THEN [st EXCEPT !.archive = st.archive \o ListToItems(children[scan.list], st.nextId),
                        !.nextId = st.nextId + Len(children[scan.list].items)]
        ELSE ParserState(
                 IF parentId = NoId THEN AddTopLevel(st.lanes, laneId) ELSE st.lanes,
                 [id \in DOMAIN st.heap \cup {laneId} |->
                     IF id = laneId THEN lane
                     ELSE IF id = parentId
                     THEN [st.heap[id] EXCEPT
                              !.children = Append(@, Child("lane", laneId, NoData))]
                     ELSE st.heap[id]],
                 st.archive,
                 Append(popped, [lane |-> laneId, level |-> level]),
                 st.nextId + Cardinality(newIds))

RECURSIVE RunBlocks(_, _, _)
RunBlocks(st, children, i) ==
    IF i > Len(children) THEN st
    ELSE RunBlocks(BlockStep(st, children, i), children, i + 1)

\* The board astToUnhydratedBoard returns: the top-level lanes, the lane
\* objects they reach, and data.archive.
BoardOf(st) == [children |-> st.lanes, heap |-> st.heap, archive |-> st.archive]

astToUnhydratedBoard(children) ==
    BoardOf(RunBlocks(InitialParserState, children, 1))

EmptyBoard == [children |-> <<>>, heap |-> EmptyHeap, archive |-> <<>>]

\* -------------------------------------------------------------- serializer
\* Markdown text is the sequence of its lines (the text split at '\n'); the
\* empty string is the single empty line.
Line(kind, n, text, item, checkChar) ==
    [kind |-> kind, n |-> n, text |-> text, item |-> item, checkChar |-> checkChar]

BlankLine == Line("blank", 0, "", 0, " ")
HeadingLine(n, text) == Line("heading", n, text, 0, " ")
TextLine(text) == Line("text", 0, text, 0, " ")
FenceLine == Line("fence", 0, "---", 0, " ")
YamlLine == Line("yaml", 0, "", 0, " ")
CodeLine == Line("code", 0, "", 0, " ")

archiveString == "***"
completeString == "**Complete**"

EmptyString == <<BlankLine>>

\* a + b on strings: the last line of a and the first line of b become one
\* line.  Every piece boardToMd joins ends or starts with an empty line.
StrConcat(a, b) ==
    LET x == a[Len(a)]
        y == b[1]
        joined == IF x.kind = "blank" THEN y
                  ELSE IF y.kind = "blank" THEN x
                  ELSE TextLine(OtherText)
    IN  SubSeq(a, 1, Len(a) - 1) \o <<joined>> \o SubSeq(b, 2, Len(b))

laneTitleWithMaxItems(title, maxItems) == title

itemToMd(item) == Line("item", 0, "", item.data.titleRaw, item.data.checkChar)

\* Faulty variant of HeadingPrefix: as many markers as the level.
HeadingPrefixLevel(lane) ==
    LET level == IF lane.level = 0 THEN 1 ELSE lane.level
    IN  IF level > 1 THEN level ELSE 1

\* '#'.repeat(Math.max(1, level + 1)) with level = lane.data.level || 1;
\* a lane without a level has level 0 here.
HeadingPrefix(lane) ==
    LET level == IF lane.level = 0 THEN 1 ELSE lane.level
    IN  IF level + 1 > 1 THEN level + 1 ELSE 1

RECURSIVE laneToMd(_, _)
RECURSIVE ChildrenToMd(_, _, _)
ChildrenToMd(heap_, children, k) ==
    IF k > Len(children) THEN <<>>
    ELSE (IF isItem(children[k]) THEN <<itemToMd(children[k])>>
          ELSE IF isLane(children[k]) THEN laneToMd(heap_, children[k].id)
          ELSE <<>>)
         \o ChildrenToMd(heap_, children, k + 1)

laneToMd(heap_, id) ==
    LET lane == heap_[id]
    IN  <<HeadingLine(HeadingPrefix(lane),
                      laneTitleWithMaxItems(lane.title, lane.maxItems)),
          BlankLine>>
        \o (IF lane.shouldMarkItemsComplete THEN <<TextLine(completeString)>> ELSE <<>>)
        \o ChildrenToMd(heap_, lane.children, 1)
        \o <<BlankLine, BlankLine, BlankLine>>

archiveToMd(archive_) ==
    IF Len(archive_) > 0
    THEN <<TextLine(archiveString), BlankLine, HeadingLine(2, ArchiveText), BlankLine>>
         \o [k \in 1..Len(archive_) |-> itemToMd(archive_[k])]
    ELSE EmptyString

settingsToCodeblock ==
    <<BlankLine, BlankLine, TextLine(SettingsMarker), CodeLine, CodeLine, CodeLine,
      TextLine("%%")>>

RECURSIVE LanesToMd(_, _, _)
LanesToMd(b, k, acc) ==
    IF k > Len(b.children) THEN acc
    ELSE LanesToMd(b, k + 1, StrConcat(acc, laneToMd(b.heap, b.children[k])))

boardToMd(b) ==
    LET lanesMd == LanesToMd(b, 1, EmptyString)
        frontmatter == <<FenceLine, BlankLine, YamlLine, FenceLine, BlankLine, BlankLine>>
    IN  StrConcat(StrConcat(StrConcat(frontmatter, lanesMd), archiveToMd(b.archive)),
                  settingsToCodeblock)

\* --------------------------------------------------------- markdown parser
\* The top-level blocks of a document.  open is what the previous line left
\* open: "none", "para", "list" (the last line is an item's), "listgap" (a
\* list followed by empty lines), "yaml" (inside the front matter), "code".
ParagraphText(text) == IF text = completeString THEN CompleteText ELSE text

AppendItem(blocks, item) ==
    [blocks EXCEPT ![Len(blocks)].items = Append(@, item)]

RECURSIVE ParseLines(_, _, _, _)
ParseLines(lines, i, blocks, open) ==
    IF i > Len(lines) THEN blocks
    ELSE LET l == lines[i]
             isText == l.kind = "text" \/ (l.kind = "heading" /\ l.n > MaxHeadingDepth)
         IN  IF open = "yaml"
             THEN ParseLines(lines, i + 1, blocks, IF l.kind = "fence" THEN "none" ELSE "yaml")
             ELSE IF l.kind = "fence" /\ i = 1
             THEN ParseLines(lines, i + 1, Append(blocks, Block("yaml", 0, "", <<>>)), "yaml")
             ELSE IF l.kind = "blank"
             THEN ParseLines(lines, i + 1, blocks,
                             IF open \in {"list", "listgap"} THEN "listgap" ELSE "none")
             ELSE IF l.kind = "item"
             THEN IF open \in {"list", "listgap"}
                  THEN ParseLines(lines, i + 1,
                                  AppendItem(blocks, ListItem(l.item, l.checkChar)), "list")
                  ELSE ParseLines(lines, i + 1,
                                  Append(blocks, List(<<ListItem(l.item, l.checkChar)>>)),
                                  "list")
             ELSE IF l.kind = "heading" /\ l.n <= MaxHeadingDepth
             THEN ParseLines(lines, i + 1, Append(blocks, Heading(l.n, l.text)), "none")
             ELSE IF l.kind = "fence" \/ (l.kind = "text" /\ l.text = archiveString)
             THEN ParseLines(lines, i + 1, Append(blocks, ThematicBreak), "none")
             ELSE IF l.kind = "code"
             THEN ParseLines(lines, i + 1,
                             IF open = "code" THEN blocks
                             ELSE Append(blocks, Block("code", 0, "", <<>>)),
                             "code")
             ELSE IF isText /\ open \in {"list", "para"}
             THEN ParseLines(lines, i + 1, blocks, open)
             ELSE ParseLines(lines, i + 1,
                             Append(blocks, Paragraph(IF l.kind = "text"
                                                      THEN ParagraphText(l.text)
                                                      ELSE OtherText)),
                             "para")

parseMarkdown(lines) == ParseLines(lines, 1, <<>>, "none")

\* ------------------------------------------------------- the text of an item
\* The content of a list item is a sequence of tokens, each standing for one
\* character position: offsets into a text are token positions counted from 0.
Tok(kind, value) == [kind |-> kind, value |-> value]

TagNames == 1..2
FieldKeys == 1..2
\* The reserved task fields among the keys.
taskFields == {1}
BlockIds == {1}

PlainText == Tok("text", 0)
Hashtag(v) == Tok("hashtag", v)
\* A hashtag whose parent's first child starts with a code fence.
FencedHashtag(v) == Tok("fencedHashtag", v)
DateTok == Tok("date", 1)
TimeTok == Tok("time", 1)
FieldTok(key) == Tok("field", key)
NewLine == Tok("newline", 0)
IndentedNewLine == Tok("indentedNewline", 0)
Br == Tok("br", 0)
Caret(id) == Tok("caret", id)
Deleted == Tok("deleted", 0)

Tokens ==
    {PlainText, DateTok, TimeTok, NewLine, IndentedNewLine, Br, FencedHashtag(1)}
        \cup {Hashtag(v) : v \in TagNames}
        \cup {FieldTok(k) : k \in FieldKeys}
        \cup {Caret(id) : id \in BlockIds}

SeqsUpTo(S, n) == UNION {[1..k -> S] : k \in 0..n}

Texts == SeqsUpTo(Tokens, MaxTokens)

replaceBrs(text) ==
    [p \in 1..Len(text) |-> IF text[p] = Br THEN NewLine ELSE text[p]]

dedentNewLines(text) ==
    [p \in 1..Len(text) |-> IF text[p] = IndentedNewLine THEN NewLine ELSE text[p]]

indentNewLines(text) ==
    [p \in 1..Len(text) |-> IF text[p] = NewLine THEN IndentedNewLine ELSE text[p]]

EndsWithBlockId(text) == Len(text) > 0 /\ text[Len(text)].kind = "caret"

removeBlockId(text) ==
    IF EndsWithBlockId(text) THEN SubSeq(text, 1, Len(text) - 1) ELSE text

addBlockId(text, data) ==
    IF data.blockId # Undefined THEN Append(text, Caret(data.blockId)) ELSE text

markRangeForDeletion(title, p) == [title EXCEPT ![p] = Deleted]

executeDeletion(title) == SelectSeq(title, LAMBDA t : t # Deleted)

\* The hook shows dates and times in their display form.
preprocessTitle(title) ==
    [p \in 1..Len(title) |->
        IF title[p].kind = "date" THEN Tok("dateDisplay", title[p].value)
        ELSE IF title[p].kind = "time" THEN Tok("timeDisplay", title[p].value)
        ELSE title[p]]

\* indexOf('\n'): the offset of the first line break, -1 when there is none.
IndexOfNewLine(title) ==
    IF \E p \in 1..Len(title) : title[p] = NewLine
    THEN (CHOOSE p \in 1..Len(title) :
              /\ title[p] = NewLine
              /\ \A q \in 1..(p - 1) : title[q] # NewLine) - 1
    ELSE -1

InlineField(key, start, end) == [key |-> key, start |-> start, end |-> end]

\* extractInlineFields: the fields of the text, ordered by their start offset.
RECURSIVE FieldsFrom(_, _)
FieldsFrom(title, p) ==
    IF p > Len(title) THEN <<>>
    ELSE IF title[p].kind = "field"
         THEN <<InlineField(title[p].value, p - 1, p)>> \o FieldsFrom(title, p + 1)
         ELSE FieldsFrom(title, p + 1)

extractInlineFields(title) == FieldsFrom(title, 1)

defaultSort(a, b) == a < b

\* The settings listItemToItemData reads.
Settings ==
    [moveTags : BOOLEAN, moveDates : BOOLEAN,
     moveTaskData : BOOLEAN, moveMetadata : BOOLEAN]

\* A list item as markdown: its check character and its content.
ItemSource(checkChar, text) == [checkChar |-> checkChar, text |-> text]

CheckChars == {" ", "x"}

\* A block-id node is the caret token that ends the content.
IsBlockIdNode(text, p) == text[p].kind = "caret" /\ p = Len(text)

\* The callback of the second visit of listItemToItemData, on the node at p.
VisitNode(acc, text, p, st) ==
    LET node == text[p]
    IN  IF IsBlockIdNode(text, p) THEN [acc EXCEPT !.blockId = node.value]
        ELSE IF node.kind = "hashtag"
        THEN [acc EXCEPT !.tags = Append(@, node.value),
                         !.title = IF st.moveTags
                                   THEN markRangeForDeletion(@, p) ELSE @]
        ELSE IF node.kind = "date"
        THEN [acc EXCEPT !.dateStr = node.value,
                         !.title = IF st.moveDates
                                   THEN markRangeForDeletion(@, p) ELSE @]
        ELSE IF node.kind = "time"
        THEN [acc EXCEPT !.timeStr = node.value,
                         !.title = IF st.moveDates
                                   THEN markRangeForDeletion(@, p) ELSE @]
        ELSE acc

RECURSIVE Visit(_, _, _, _)
Visit(acc, text, p, st) ==
    IF p > Len(text) THEN acc
    ELSE Visit(VisitNode(acc, text, p, st), text, p + 1, st)

\* The test of the reduce over the inline fields.
KeepField(field, firstLineEnd) ==
    IF field.key \notin taskFields THEN TRUE
    ELSE firstLineEnd <= 0 \/ field.end < firstLineEnd

\* The loop that cuts the kept fields out of the title, last field first.
RECURSIVE Excise(_, _, _, _)
Excise(title, inlineMetadata, k, st) ==
    IF k = 0 THEN title
    ELSE LET field == inlineMetadata[k]
             isTask == field.key \in taskFields
         IN  IF (isTask /\ ~st.moveTaskData) \/ (~isTask /\ ~st.moveMetadata)
             THEN Excise(title, inlineMetadata, k - 1, st)
             ELSE Excise(SubSeq(title, 1, field.start)
                             \o SubSeq(title, field.end + 1, Len(title)),
                         inlineMetadata, k - 1, st)

\* Faulty variant of SortTags: the tags stay in source order.
SortTagsNot(tags) == tags

\* metadata.tags.sort(defaultSort)
SortTags(tags) == SortSeq(tags, defaultSort)

\* What the second visit of listItemToItemData gathers from the nodes of src.
Visited(st, src) ==
    Visit([blockId |-> Undefined, tags |-> <<>>,
           dateStr |-> Undefined, timeStr |-> Undefined,
           title |-> src.text], src.text, 1, st)

\* itemData.title before the inline fields are looked for.
TitleOf(st, src) ==
    preprocessTitle(dedentNewLines(executeDeletion(Visited(st, src).title)))

\* listItemToItemData on the list item parsed from src.
decompose(st, src) ==
    LET checked == src.checkChar # " "
        seen == Visited(st, src)
        title == TitleOf(st, src)
        firstLineEnd == IndexOfNewLine(title)
        inlineFields == extractInlineFields(title)
        inlineMetadata ==
            SelectSeq(inlineFields, LAMBDA f : KeepField(f, firstLineEnd))
    IN  [titleRaw |-> removeBlockId(dedentNewLines(replaceBrs(src.text))),
         blockId |-> seen.blockId,
         title |-> IF st.moveTaskData \/ st.moveMetadata
                   THEN Excise(title, inlineMetadata, Len(inlineMetadata), st)
                   ELSE title,
         checked |-> checked,
         checkChar |-> IF checked THEN src.checkChar ELSE " ",
         tags |-> SortTags(seen.tags),
         dateStr |-> seen.dateStr,
         timeStr |-> seen.timeStr,
         inlineMetadata |-> inlineMetadata]

\* itemToMd on the data of an item.
compose(data) ==
    ItemSource(data.checkChar, addBlockId(indentNewLines(data.titleRaw), data))

\* The markdown updateItemContent builds from the old item and the new content.
UpdateMd(oldData, newContent) ==
    ItemSource(oldData.checkChar, addBlockId(indentNewLines(newContent), oldData))

updateItemContent(st, oldData, newContent) ==
    decompose(st, UpdateMd(oldData, newContent))

NoSettings ==
    [moveTags |-> FALSE, moveDates |-> FALSE,
     moveTaskData |-> FALSE, moveMetadata |-> FALSE]
NoSource == ItemSource(" ", <<>>)
NoItemData == decompose(NoSettings, NoSource)

\* No item is being worked on.
ItemIdle ==
    /\ settings = NoSettings
    /\ source = NoSource
    /\ itemData = NoItemData
    /\ itemMd = NoSource

\* ------------------------------------------------------------ collapsing
\* The view state 'list-collapse' is an array of flags by lane index; a hole
\* of the array reads as undefined, which is falsy.  The array is the sequence
\* of its entries, index i at position i + 1.
ArrayAt(arr, i) == IF i + 1 <= Len(arr) THEN arr[i + 1] ELSE FALSE

\* arr[i] = v on a copy of the array; the indexes skipped are holes.
ArraySet(arr, i, v) ==
    [p \in 1..(IF i + 1 > Len(arr) THEN i + 1 ELSE Len(arr)) |->
        IF p = i + 1 THEN v
        ELSE IF p <= Len(arr) THEN arr[p] ELSE FALSE]

\* The view state 'hierarchical-collapse' is an object keyed by lane id; a
\* missing key reads as undefined.
NoEntries == [id \in {} |-> FALSE]

EntryAt(obj, id) == IF id \in DOMAIN obj THEN obj[id] ELSE FALSE

\* {...obj, [id]: v}
EntrySet(obj, id, v) ==
    [k \in DOMAIN obj \cup {id} |-> IF k = id THEN v ELSE obj[k]]

CollapseState(listCollapse, hierarchicalCollapse) ==
    [listCollapse |-> listCollapse, hierarchicalCollapse |-> hierarchicalCollapse]

NoCollapseState == CollapseState(<<>>, NoEntries)

\* What setState hands on: the view's state and the board's settings.
UiState(view, boardSettings_) == [view |-> view, settings |-> boardSettings_]

LaneIdsOf(children) == [k \in 1..Len(children) |-> children[k].id]

\* The lanes one Lanes element renders, for the element that renders lane id:
\* the board's children, or the nested lanes of the lane's parent.
LanesOf(b, id) ==
    IF \E k \in 1..Len(b.children) : b.children[k] = id THEN b.children
    ELSE LaneIdsOf(getNestedLanes(b.heap[b.heap[id].parentId]))

\* laneIndex = i of lanes.map((lane, i) => ...)
LaneIndex(b, id) == (CHOOSE k \in 1..Len(LanesOf(b, id)) : LanesOf(b, id)[k] = id) - 1

\* isCollapsed of the lane's DraggableLane, with no search going on.
isCollapsed(view, b, id) == ArrayAt(view.listCollapse, LaneIndex(b, id))

toggleIsCollapsed(st, laneIndex) ==
    LET collapseState ==
            ArraySet(st.view.listCollapse, laneIndex,
                     ~ArrayAt(st.view.listCollapse, laneIndex))
    IN  UiState([st.view EXCEPT !.listCollapse = collapseState],
                [st.settings EXCEPT !.listCollapse = collapseState])

toggleHierarchicalCollapse(st, lane, laneIndex) ==
    IF ~isParentLane(lane) THEN toggleIsCollapsed(st, laneIndex)
    ELSE LET hierarchicalCollapseState == st.view.hierarchicalCollapse
             isCurrentlyCollapsed == EntryAt(hierarchicalCollapseState, lane.id)
             newHierarchicalState ==
                 EntrySet(hierarchicalCollapseState, lane.id, ~isCurrentlyCollapsed)
         IN  UiState([st.view EXCEPT !.hierarchicalCollapse = newHierarchicalState],
                     [st.settings EXCEPT !.hierarchicalCollapse = newHierarchicalState])

isHierarchicallyCollapsed(view, lane) ==
    IF ~isParentLane(lane) THEN FALSE
    ELSE EntryAt(view.hierarchicalCollapse, lane.id)

Keys == {"ArrowLeft", "ArrowRight", " ", "Enter", "Escape"}

\* Faulty variant of handleKeyDown: ArrowLeft and ArrowRight toggle whatever
\* the state is.
handleKeyDownAlwaysToggle(st, lane, laneIndex, key, targetIsElement) ==
    IF ~isParentLane(lane) THEN st
    ELSE IF key \in {"ArrowLeft", "ArrowRight"}
         THEN toggleHierarchicalCollapse(st, lane, laneIndex)
    ELSE IF key \in {" ", "Enter"} /\ targetIsElement
         THEN toggleHierarchicalCollapse(st, lane, laneIndex)
    ELSE st

\* handleKeyDown for a key event; targetIsElement is e.target === elementRef.current.
handleKeyDown(st, lane, laneIndex, key, targetIsElement) ==
    IF ~isParentLane(lane) THEN st
    ELSE IF key = "ArrowLeft" /\ ~isHierarchicallyCollapsed(st.view, lane)
         THEN toggleHierarchicalCollapse(st, lane, laneIndex)
    ELSE IF key = "ArrowRight" /\ isHierarchicallyCollapsed(st.view, lane)
         THEN toggleHierarchicalCollapse(st, lane, laneIndex)
    ELSE IF key \in {" ", "Enter"} /\ targetIsElement
         THEN toggleHierarchicalCollapse(st, lane, laneIndex)
    ELSE st

\* The lane's DraggableLane is on screen: NestedContent renders the nested
\* lanes of a lane that is neither collapsed nor hierarchically collapsed.
RECURSIVE IsRendered(_, _, _)
IsRendered(view, b, id) ==
    IF \E k \in 1..Len(b.children) : b.children[k] = id THEN TRUE
    ELSE LET parent == b.heap[id].parentId
         IN  /\ ~isCollapsed(view, b, parent)
             /\ ~isHierarchicallyCollapsed(view, b.heap[parent])
             /\ IsRendered(view, b, parent)

\* No lane was collapsed or expanded.
UiIdle ==
    /\ viewState = NoCollapseState
    /\ boardSettings = NoCollapseState

\* ----------------------------------------------------------- state machine
\* root       the top-level blocks of the document being parsed
\* index      the block root.children.forEach is at
\* lanes      the ids of the top-level lanes (the array `lanes`)
\* heap       the lane objects created so far, by id
\* archive    the array `archive`
\* laneStack  the stack of {lane, level}
\* nextId     the ids generateInstanceId has handed out, plus one
\* owner      history: for each heading processed, the list it took its items
\*            from and the lane it made (NoId: none)
\* board      the board astToUnhydratedBoard returned
\* md         boardToMd(board); board2 the board parsed from md; md2 its text
\* target     the lane whose text md holds (NoId: the whole board's)
\* calls      history: the items reparseBoard handed to updateItemContent
\* settings   the settings the item functions read
\* source     the markdown of the list item that was parsed last
\* itemData   the item data parsed from source
\* itemMd     the markdown itemToMd wrote for itemData, until it is parsed
Here == ParserState(lanes, heap, archive, laneStack, nextId)

Init ==
    /\ root \in Documents
    /\ index = 1
    /\ lanes = <<>>
    /\ heap = EmptyHeap
    /\ archive = <<>>
    /\ laneStack = <<>>
    /\ nextId = 1
    /\ owner = {}
    /\ pc = "parse"
    /\ board = EmptyBoard
    /\ md = EmptyString
    /\ board2 = EmptyBoard
    /\ md2 = EmptyString
    /\ target = NoId
    /\ calls = <<>>
    /\ ItemIdle
    /\ UiIdle

Advance(st) ==
    /\ lanes' = st.lanes
    /\ heap' = st.heap
    /\ archive' = st.archive
    /\ laneStack' = st.laneStack
    /\ nextId' = st.nextId
    /\ index' = index + 1
    /\ UNCHANGED <<uiVars, root, pc, board, md, board2, md2, target, calls, itemVars>>

AtBlock == pc = "parse" /\ index <= Len(root)

\* forEach callback on a block that is no heading: nothing happens.
SkipBlock ==
    /\ AtBlock
    /\ root[index].type # "heading"
    /\ Advance(BlockStep(Here, root, index))
    /\ UNCHANGED owner

\* forEach callback on the archive heading that has a list.
ProcessArchive ==
    /\ AtBlock
    /\ root[index].type = "heading"
    /\ IsArchiveSection(root, index)
    /\ Advance(BlockStep(Here, root, index))
    /\ owner' = owner \cup {[heading |-> index,
                             list |-> getNextOfType(root, index).list,
                             lane |-> NoId]}

\* forEach callback on a heading that becomes a lane.
ProcessHeading ==
    /\ AtBlock
    /\ root[index].type = "heading"
    /\ ~IsArchiveSection(root, index)
    /\ Advance(BlockStep(Here, root, index))
    /\ owner' = owner \cup {[heading |-> index,
                             list |-> getNextOfType(root, index).list,
                             lane |-> nextId]}

\* astToUnhydratedBoard returns the board.
ReturnBoard ==
    /\ pc = "parse"
    /\ index > Len(root)
    /\ pc' = "parsed"
    /\ board' = BoardOf(Here)
    /\ UNCHANGED <<uiVars, parserVars, md, board2, md2, target, calls, itemVars>>

\* The board is written out with boardToMd.
Save ==
    /\ pc = "parsed"
    /\ pc' = "saved"
    /\ md' = boardToMd(board)
    /\ UNCHANGED <<uiVars, parserVars, board, board2, md2, target, calls, itemVars>>

\* The written text is parsed again.
Load ==
    /\ pc = "saved"
    /\ pc' = "loaded"
    /\ board2' = astToUnhydratedBoard(parseMarkdown(md))
    /\ UNCHANGED <<uiVars, parserVars, board, md, md2, target, calls, itemVars>>

\* The board parsed from the text is written out again.
SaveAgain ==
    /\ pc = "loaded"
    /\ pc' = "resaved"
    /\ md2' = boardToMd(board2)
    /\ UNCHANGED <<uiVars, parserVars, board, md, board2, target, calls, itemVars>>

Next ==
    \/ SkipBlock
    \/ ProcessArchive
    \/ ProcessHeading
    \/ ReturnBoard
    \/ Save
    \/ Load
    \/ SaveAgain

Spec == Init /\ [][Next]_vars

\* ------------------------------------------------------- views of a board
\* The content of a board without its ids: what two boards are compared by.
View(type, title, level, complete, data, children) ==
    [type |-> type, title |-> title, level |-> level, complete |-> complete,
     data |-> data, children |-> children]

RECURSIVE LaneView(_, _)
LaneView(heap_, id) ==
    LET lane == heap_[id]
    IN  View("lane", lane.title, lane.level, lane.shouldMarkItemsComplete, NoData,
             [k \in 1..Len(lane.children) |->
                 IF isLane(lane.children[k])
                 THEN LaneView(heap_, lane.children[k].id)
                 ELSE View("item", "", 0, FALSE, lane.children[k].data, <<>>)])

ItemViews(items) ==
    [k \in 1..Len(items) |-> View("item", "", 0, FALSE, items[k].data, <<>>)]

BoardView(b) ==
    [lanes |-> [k \in 1..Len(b.children) |-> LaneView(b.heap, b.children[k])],
     archive |-> ItemViews(b.archive)]

\* C1: the board parsed from boardToMd(board) has the lane forest, the items
\* and the archive of board; only the ids may differ.
RoundTripSameBoard == pc = "loaded" => BoardView(board2) = BoardView(board)

\* C2: serializing, parsing and serializing again gives the text of the first
\* serialization, line for line.
SerializeIdempotent == pc = "resaved" => md2 = md

\* ------------------------------------------------- the document, as claimed
\* What the claims say of a document, stated on the blocks themselves.
IsHeading(i) == root[i].type = "heading"

\* The archive pattern: the archive title, directly after a thematic break.
ArchivePattern(i) ==
    /\ IsHeading(i)
    /\ root[i].text = ArchiveText
    /\ i > 1
    /\ root[i - 1].type = "thematicBreak"

StopsListScan(m) ==
    \/ IsHeading(m)
    \/ (root[m].type = "paragraph" /\ root[m].text = SettingsMarker)

\* The list block j supplies the heading h: j is the first list after h, and
\* no heading and no settings marker lies between them.
Supplies(h, j) ==
    /\ h < j
    /\ root[j].type = "list"
    /\ \A m \in (h + 1)..(j - 1) : ~StopsListScan(m) /\ root[m].type # "list"

ListOf(h) ==
    IF \E j \in 1..Len(root) : Supplies(h, j)
    THEN CHOOSE j \in 1..Len(root) : Supplies(h, j)
    ELSE 0

SourceTexts(j) ==
    IF j = 0 THEN <<>> ELSE [k \in 1..Len(root[j].items) |-> root[j].items[k].text]

ItemTexts(children) ==
    LET items == SelectSeq(children, isItem)
    IN  [k \in 1..Len(items) |-> items[k].data.titleRaw]

LaneOfHeading(h) ==
    IF \E e \in owner : e.heading = h
    THEN (CHOOSE e \in owner : e.heading = h).lane
    ELSE NoId

Max(S) == CHOOSE x \in S : \A y \in S : y <= x

Range(seq) == {seq[k] : k \in 1..Len(seq)}

RECURSIVE Ascending(_)
Ascending(S) ==
    IF S = {} THEN <<>>
    ELSE LET x == CHOOSE y \in S : \A z \in S : y <= z
         IN  <<x>> \o Ascending(S \ {x})

RECURSIVE Concat(_)
Concat(seqs) == IF seqs = <<>> THEN <<>> ELSE Head(seqs) \o Concat(Tail(seqs))

RECURSIVE PreOrder(_, _)
PreOrder(heap_, ids) ==
    Concat([k \in 1..Len(ids) |->
               <<ids[k]>> \o PreOrder(heap_,
                                      [c \in 1..Len(getNestedLanes(heap_[ids[k]])) |->
                                          getNestedLanes(heap_[ids[k]])[c].id])])

Parsed == pc # "parse"

\* -------------------------------------------------------------------- C3
\* C3: in a board astToUnhydratedBoard returns, every lane with a parent has a
\* level strictly greater than its parent's and is among the parent's children.
HierarchyOf(b) ==
    \A id \in DOMAIN b.heap :
        LET l == b.heap[id]
        IN  l.parentId # NoId =>
                /\ l.parentId \in DOMAIN b.heap
                /\ l.level > b.heap[l.parentId].level
                /\ \E k \in 1..Len(b.heap[l.parentId].children) :
                       /\ isLane(b.heap[l.parentId].children[k])
                       /\ b.heap[l.parentId].children[k].id = id

LaneHierarchy ==
    /\ Parsed => HierarchyOf(board)
    /\ pc \in {"loaded", "resaved"} => HierarchyOf(board2)

\* A returned board with a lane nested two deep.
LaneHierarchyWitness ==
    /\ pc = "parsed"
    /\ \E id \in DOMAIN board.heap :
           /\ board.heap[id].parentId # NoId
           /\ board.heap[board.heap[id].parentId].parentId # NoId

\* -------------------------------------------------------------------- C4
\* C4: the parent of the lane of a non-archive heading at level L is the lane
\* of the most recent earlier non-archive heading with a level below L, and
\* the lane is top-level when there is no such heading.
ShallowerBefore(h) ==
    {g \in 1..(h - 1) :
        /\ IsHeading(g)
        /\ ~ArchivePattern(g)
        /\ HeadingLevel(root[g]) < HeadingLevel(root[h])}

ParentIsNearestShallower ==
    \A e \in owner :
        (~ArchivePattern(e.heading) /\ e.lane # NoId) =>
            /\ heap[e.lane].parentId =
                   IF ShallowerBefore(e.heading) = {} THEN NoId
                   ELSE LaneOfHeading(Max(ShallowerBefore(e.heading)))
            /\ (heap[e.lane].parentId = NoId) <=> (e.lane \in Range(lanes))

\* -------------------------------------------------------------------- C5
\* C5: in a returned board a lane's parentId is the id of the lane whose
\* children contain it, and it is undefined exactly for the top-level lanes.
ParentIdOf(b) ==
    /\ \A p \in DOMAIN b.heap :
           \A k \in 1..Len(b.heap[p].children) :
               isLane(b.heap[p].children[k]) =>
                   b.heap[b.heap[p].children[k].id].parentId = p
    /\ \A id \in DOMAIN b.heap :
           /\ (b.heap[id].parentId = NoId) <=> (id \in Range(b.children))
           /\ b.heap[id].parentId # NoId =>
                  \E p \in DOMAIN b.heap :
                      \E k \in 1..Len(b.heap[p].children) :
                          /\ isLane(b.heap[p].children[k])
                          /\ b.heap[p].children[k].id = id

ParentIdAgrees ==
    /\ Parsed => ParentIdOf(board)
    /\ pc \in {"loaded", "resaved"} => ParentIdOf(board2)

\* A returned board with a top-level lane and a nested lane.
ParentIdAgreesWitness ==
    /\ pc = "parsed"
    /\ Len(board.children) > 0
    /\ \E id \in DOMAIN board.heap : board.heap[id].parentId # NoId

\* -------------------------------------------------------------------- C6
\* C6: a heading that matches the archive pattern never becomes a lane and
\* never changes the lane stack, whether or not a list follows it; the items
\* of its list are appended to the archive only.
ArchiveHeadingNeverLane ==
    [][(AtBlock /\ ArchivePattern(index)) =>
          /\ heap' = heap
          /\ lanes' = lanes
          /\ laneStack' = laneStack
          /\ ItemTexts(archive') = ItemTexts(archive) \o SourceTexts(ListOf(index))]_vars

\* -------------------------------------------------------------------- C7
\* C7: a heading with the archive title that is the first block, or whose
\* preceding block is no thematic break, is an ordinary lane heading: it makes
\* a lane, closes the stack entries at its level or deeper and is pushed, the
\* items of its list become the lane's children, and the archive is unchanged.
ArchiveTitled(i) == IsHeading(i) /\ root[i].text = ArchiveText /\ ~ArchivePattern(i)

ArchiveTitleAloneIsLane ==
    [][(AtBlock /\ ArchiveTitled(index)) =>
          LET level == root[index].depth
              top == Len(laneStack')
          IN  /\ nextId \notin DOMAIN heap
              /\ nextId \in DOMAIN heap'
              /\ heap'[nextId].title = ArchiveText
              /\ heap'[nextId].level = level
              /\ ItemTexts(heap'[nextId].children) = SourceTexts(ListOf(index))
              /\ top > 0
              /\ laneStack'[top] = [lane |-> nextId, level |-> level]
              /\ top - 1 <= Len(laneStack)
              /\ SubSeq(laneStack', 1, top - 1) = SubSeq(laneStack, 1, top - 1)
              /\ \A k \in 1..(top - 1) : laneStack[k].level < level
              /\ \A k \in top..Len(laneStack) : laneStack[k].level >= level
              /\ archive' = archive]_vars

\* A returned board in which the lane of such a heading has an item and a
\* nested lane.
ArchiveTitleAloneIsLaneWitness ==
    /\ pc = "parsed"
    /\ \E e \in owner :
           /\ ArchiveTitled(e.heading)
           /\ e.lane # NoId
           /\ e.list # 0
           /\ Len(getNestedItems(board.heap[e.lane])) > 0
           /\ isParentLane(board.heap[e.lane])
           /\ board.archive = <<>>

\* -------------------------------------------------------------------- C8
\* C8: a list block supplies items to at most one heading, the nearest heading
\* before it, and only when no heading and no settings marker lies between
\* them; no item is under two lanes or both under a lane and in the archive,
\* and a heading without such a list gets no items.
AllItemTexts ==
    Concat([k \in 1..Len(Ascending(DOMAIN heap)) |->
               ItemTexts(heap[Ascending(DOMAIN heap)[k]].children)])
    \o ItemTexts(archive)

NoDuplicates(seq) == \A a, b \in 1..Len(seq) : seq[a] = seq[b] => a = b

ListSuppliesOneHeading ==
    /\ \A e \in owner :
           /\ e.list # 0 =>
                  /\ e.heading < e.list
                  /\ root[e.list].type = "list"
                  /\ \A m \in (e.heading + 1)..(e.list - 1) : ~StopsListScan(m)
                  /\ \A f \in owner : f.list = e.list => f = e
           /\ e.lane # NoId => ItemTexts(heap[e.lane].children) = SourceTexts(e.list)
           /\ e.list = 0 <=> (\A j \in 1..Len(root) : ~Supplies(e.heading, j))
    /\ NoDuplicates(AllItemTexts)
    /\ Range(AllItemTexts) =
           UNION {Range(SourceTexts(e.list)) : e \in owner}

\* A returned board where a heading has items, the heading before it has none
\* because that heading lies between, and a list was left to the archive.
ListSuppliesOneHeadingWitness ==
    /\ pc = "parsed"
    /\ \E e, f \in owner :
           /\ e.heading < f.heading
           /\ e.lane # NoId
           /\ e.list = 0
           /\ f.list # 0
           /\ Len(AllItemTexts) > 1

\* -------------------------------------------------------------------- C9
\* C9: in a returned board every non-archive heading has exactly one lane,
\* which occurs once in the lane forest; a depth-first pre-order walk of the
\* forest meets the lanes in the order of their headings, and the archive
\* items are in the order of the document.
LaneHeadings == {e.heading : e \in {f \in owner : f.lane # NoId}}

LanesInHeadingOrder ==
    [k \in 1..Cardinality(LaneHeadings) |-> LaneOfHeading(Ascending(LaneHeadings)[k])]

Occurrences(seq, x) == Cardinality({k \in 1..Len(seq) : seq[k] = x})

ForestInDocumentOrder ==
    Parsed =>
        /\ \A i \in 1..Len(root) :
               (IsHeading(i) /\ ~ArchivePattern(i)) =>
                   /\ Cardinality({e \in owner : e.heading = i}) = 1
                   /\ LaneOfHeading(i) \in DOMAIN board.heap
                   /\ Occurrences(PreOrder(board.heap, board.children),
                                  LaneOfHeading(i)) = 1
        /\ PreOrder(board.heap, board.children) = LanesInHeadingOrder
        /\ \A a, b \in 1..Len(board.archive) :
               a < b => board.archive[a].data.titleRaw < board.archive[b].data.titleRaw

\* A returned board with two top-level lanes and a nested lane.
ForestInDocumentOrderWitness ==
    /\ pc = "parsed"
    /\ Len(board.children) > 1
    /\ \E id \in DOMAIN board.heap : board.heap[id].parentId # NoId

\* ------------------------------------------------- laneToMd on held boards
\* LaneData.level is optional: a board the state manager holds may have a
\* lane without a level (level 0 here).
WithoutLevel(b, ids) ==
    [b EXCEPT !.heap = [id \in DOMAIN b.heap |->
                           IF id \in ids THEN [b.heap[id] EXCEPT !.level = 0]
                           ELSE b.heap[id]]]

\* getTaskStatusDone()
TaskStatusDone == "x"

AddedItemText == ItemText(0, 1)

\* The id of the item handed to addItems: none a parse of the document gives.
AddedItemId == MaxBlocks * (MaxItems + 1) + 1

\* The lane's addItems with the append insertion method: the item gets the
\* lane's shouldMarkItemsComplete and goes after the lane's last child.
WithAddedItem(b, id) ==
    LET complete == b.heap[id].shouldMarkItemsComplete
        item == Child("item", AddedItemId,
                      ItemData(AddedItemText, complete,
                               IF complete THEN TaskStatusDone ELSE " "))
    IN  [b EXCEPT !.heap[id].children = Append(@, item)]

HeldBoards(children) ==
    LET b == astToUnhydratedBoard(children)
    IN  {b} \cup {WithoutLevel(b, {id}) : id \in DOMAIN b.heap}
            \cup {WithAddedItem(b, id) : id \in DOMAIN b.heap}
            \cup {WithAddedItem(WithoutLevel(b, {id}), id) : id \in DOMAIN b.heap}

InitMd ==
    /\ root \in Documents
    /\ board \in HeldBoards(root)
    /\ pc = "held"
    /\ index = 1
    /\ lanes = <<>>
    /\ heap = EmptyHeap
    /\ archive = <<>>
    /\ laneStack = <<>>
    /\ nextId = 1
    /\ owner = {}
    /\ md = EmptyString
    /\ board2 = EmptyBoard
    /\ md2 = EmptyString
    /\ target = NoId
    /\ calls = <<>>
    /\ ItemIdle
    /\ UiIdle

\* laneToMd is applied to one lane of the board.
EmitLane ==
    /\ pc = "held"
    /\ \E id \in DOMAIN board.heap :
           /\ target' = id
           /\ md' = laneToMd(board.heap, id)
    /\ pc' = "emitted"
    /\ UNCHANGED <<uiVars, parserVars, board, board2, md2, calls, itemVars>>

NextMd == EmitLane

SpecMd == InitMd /\ [][NextMd]_vars

\* ------------------------------------------------------------------- C10
\* C10: the text of a lane starts with a heading of level + 1 markers (2 for a
\* level-1 lane and for a lane without a level); the lines that are not empty
\* are the lane's heading, its complete marker, and its children in stored
\* order, a nested lane with all of its own lines in its place; the text of a
\* nested lane ends before the three empty lines that end its parent's.
ExpectedMarkers(lane) == IF lane.level = 0 THEN 2 ELSE lane.level + 1

RECURSIVE Walk(_, _)
Walk(heap_, id) ==
    <<HeadingLine(ExpectedMarkers(heap_[id]), heap_[id].title)>>
    \o (IF heap_[id].shouldMarkItemsComplete THEN <<TextLine(completeString)>> ELSE <<>>)
    \o Concat([k \in 1..Len(heap_[id].children) |->
                  IF isLane(heap_[id].children[k])
                  THEN Walk(heap_, heap_[id].children[k].id)
                  ELSE <<Line("item", 0, "", heap_[id].children[k].data.titleRaw,
                              heap_[id].children[k].data.checkChar)>>])

NotBlank(l) == l.kind # "blank"

RECURSIVE TrailingBlanks(_)
TrailingBlanks(text) ==
    IF Len(text) > 0 /\ text[Len(text)].kind = "blank"
    THEN 1 + TrailingBlanks(SubSeq(text, 1, Len(text) - 1))
    ELSE 0

\* The empty lines that end a lane's text: three for the lane, those of its
\* last child when that is a lane, and the line after the heading when the
\* lane has nothing else.
RECURSIVE ExpectedTrailingBlanks(_, _)
ExpectedTrailingBlanks(heap_, id) ==
    LET lane == heap_[id]
        n == Len(lane.children)
    IN  3 + (IF n > 0 /\ isLane(lane.children[n])
             THEN ExpectedTrailingBlanks(heap_, lane.children[n].id)
             ELSE IF n = 0 /\ ~lane.shouldMarkItemsComplete THEN 1
             ELSE 0)

LaneTextShape ==
    pc = "emitted" =>
        /\ md[1].kind = "heading"
        /\ md[1].n = ExpectedMarkers(board.heap[target])
        /\ md[2] = BlankLine
        /\ SelectSeq(md, NotBlank) = Walk(board.heap, target)
        /\ TrailingBlanks(md) = ExpectedTrailingBlanks(board.heap, target)

\* The text of a lane without a level whose children are an item, a nested
\* lane and an item after it.
LaneTextShapeWitness ==
    /\ pc = "emitted"
    /\ board.heap[target].level = 0
    /\ Len(board.heap[target].children) > 2
    /\ isItem(board.heap[target].children[1])
    /\ isLane(board.heap[target].children[2])
    /\ isItem(board.heap[target].children[3])
    /\ md[Len(md) - 3].kind = "item"

\* ------------------------------------------------------------------- C20
\* C20 as stated: a lane's shouldMarkItemsComplete is true exactly when a
\* Complete paragraph lies between the lane's heading and its list, with no
\* heading and no settings marker before it.
IsComplete(m) == root[m].type = "paragraph" /\ root[m].text = CompleteText

CompleteBeforeList(h) ==
    /\ ListOf(h) # 0
    /\ \E m \in (h + 1)..(ListOf(h) - 1) : IsComplete(m)

CompleteAfter(h) ==
    \E m \in (h + 1)..Len(root) :
        /\ IsComplete(m)
        /\ \A k \in (h + 1)..(m - 1) : ~StopsListScan(k) /\ root[k].type # "list"

\* The lines of a text that are lane headings: all headings but the one the
\* archive string introduces.
LaneHeadingLines(text) ==
    Ascending({i \in 1..Len(text) :
                  /\ text[i].kind = "heading"
                  /\ ~(i > 2 /\ text[i - 2] = TextLine(archiveString))})

CompleteFlags(b) ==
    [k \in 1..Len(PreOrder(b.heap, b.children)) |->
        b.heap[PreOrder(b.heap, b.children)[k]].shouldMarkItemsComplete]

MarkerAfterHeading(text, i) ==
    /\ i + 2 <= Len(text)
    /\ text[i + 1] = BlankLine
    /\ text[i + 2] = TextLine(completeString)

ReparsedItem(child) ==
    Child("item", child.id,
          listItemToItemData(ListItem(itemToMd(child).item, itemToMd(child).checkChar)))

\* The items the two maps of reparseBoard meet, in the order they meet them.
ItemsOfTopLanes(b) ==
    Concat([k \in 1..Len(b.children) |-> getNestedItems(b.heap[b.children[k]])])

\* lane.children.map(child => isItem(child) ? updateItemContent(...) : child)
\* Faulty variant of ReparsedChildren: the inner map keeps the re-parsed items
\* and drops the nested lanes.
ReparsedChildrenItemsOnly(children) ==
    LET items == SelectSeq(children, isItem)
    IN  [k \in 1..Len(items) |-> ReparsedItem(items[k])]

ReparsedChildren(children) ==
    [k \in 1..Len(children) |->
        IF isItem(children[k]) THEN ReparsedItem(children[k]) ELSE children[k]]

\* reparseBoard on board b, where updateItemContent throws for the items
\* whose id is in throwing (parseFragment or listItemToItemData fails).
\* An exception leaves the maps at the first such item: setError, rethrow.
reparseBoard(b, throwing) ==
    LET met == ItemsOfTopLanes(b)
        bad == {k \in 1..Len(met) : met[k].id \in throwing}
        last == IF bad = {} THEN Len(met)
                ELSE CHOOSE k \in bad : \A j \in bad : k <= j
    IN  [threw |-> bad # {},
         calls |-> [k \in 1..last |-> met[k].id],
         board |-> IF bad # {} THEN EmptyBoard
                   ELSE [b EXCEPT !.heap =
                            [id \in DOMAIN b.heap |->
                                IF id \in Range(b.children)
                                THEN [b.heap[id] EXCEPT
                                         !.children = ReparsedChildren(@)]
                                ELSE b.heap[id]]]]

\* The parser's variables when no document is being parsed.
ParserIdle ==
    /\ index = 1
    /\ lanes = <<>>
    /\ heap = EmptyHeap
    /\ archive = <<>>
    /\ laneStack = <<>>
    /\ nextId = 1
    /\ owner = {}

\* The items of a board, at any depth.
AllItems(b) ==
    UNION {Range(getNestedItems(b.heap[id])) : id \in Range(PreOrder(b.heap, b.children))}

ItemIds(items) == {i.id : i \in items}

\* SpecReparse: a board parsed from a document is held; reparseBoard runs on it
\* and at most one item's re-parse throws (target names it).
InitReparse ==
    /\ root \in Documents
    /\ board = astToUnhydratedBoard(root)
    /\ pc = "held"
    /\ ParserIdle
    /\ md = EmptyString
    /\ board2 = EmptyBoard
    /\ md2 = EmptyString
    /\ target = NoId
    /\ calls = <<>>
    /\ ItemIdle
    /\ UiIdle

Reparse ==
    /\ pc = "held"
    /\ \E failing \in {NoId} \cup ItemIds(AllItems(board)) :
           LET result == reparseBoard(board, {failing} \ {NoId})
           IN  /\ target' = failing
               /\ calls' = result.calls
               /\ board2' = result.board
               /\ pc' = IF result.threw THEN "thrown" ELSE "reparsed"
    /\ UNCHANGED <<uiVars, parserVars, board, md, md2, itemVars>>

NextReparse == Reparse

SpecReparse == InitReparse /\ [][NextReparse]_vars

ItemById(b, id) == CHOOSE i \in AllItems(b) : i.id = id

\* -------------------------------------------------------------------- C11
\* C11: when the re-parse of one item fails during reparseBoard, a board is
\* still returned, the failing item is in it as it was, and every other item
\* of the board was handed to updateItemContent.
FailingItemKept ==
    (pc \in {"reparsed", "thrown"} /\ target # NoId) =>
        /\ pc = "reparsed"
        /\ target \in ItemIds(AllItems(board2))
        /\ ItemById(board2, target) = ItemById(board, target)
        /\ ItemIds(AllItems(board)) \ {target} \subseteq Range(calls)

\* -------------------------------------------------------------------- C12
\* C12: reparseBoard hands every item of the board to updateItemContent, the
\* items of nested lanes at any depth as well as those of top-level lanes.
EveryItemReparsed ==
    pc = "reparsed" => Range(calls) = ItemIds(AllItems(board))

\* ---------------------------------------------------------------- addItems
\* Faulty variant of MarkItems: the items keep the state they came with.
MarkItemsAsGiven(lane, items) == items

\* The items.map of addItems: each item gets the lane's flag.
MarkItems(lane, items) ==
    [k \in 1..Len(items) |->
        [items[k] EXCEPT
            !.data.checked = lane.shouldMarkItemsComplete,
            !.data.checkChar = IF lane.shouldMarkItemsComplete
                               THEN TaskStatusDone ELSE " "]]

\* boardModifiers.appendItems and prependItems on the children of the lane.
appendItems(children, items) == children \o items
prependItems(children, items) == items \o children

\* The lane's addItems handler, lane being the lane the component shows.
addItems(b, id, items, shouldPrepend) ==
    [b EXCEPT !.heap[id].children =
        IF shouldPrepend THEN prependItems(@, MarkItems(b.heap[id], items))
        ELSE appendItems(@, MarkItems(b.heap[id], items))]

\* Documents of lane headings, lists and Complete paragraphs.
LaneShapes ==
    {Heading(d, "A") : d \in 1..MaxDepth}
    \cup {Block("list", n, "", <<>>) : n \in 1..MaxItems}
    \cup {Paragraph(CompleteText)}

LaneDocuments ==
    {Document(s) : s \in UNION {[1..n -> LaneShapes] : n \in 0..MaxBlocks}}

\* The text of the item the form makes with id: none a source item has.
NewItemText(id) == ItemText(MaxBlocks + 1, id)

IsNewItem(child) == isItem(child) /\ child.data.titleRaw >= ItemText(MaxBlocks + 1, 0)

\* SpecAdd: a board parsed from a document is shown; each lane's addItems is
\* called at most once, with an item in any checked state and either
\* insertion method; the board is then saved and loaded.  calls holds the
\* last call.
InitAdd ==
    /\ root \in LaneDocuments
    /\ LET st == RunBlocks(InitialParserState, root, 1)
       IN  /\ lanes = st.lanes
           /\ heap = st.heap
           /\ archive = st.archive
           /\ laneStack = st.laneStack
           /\ nextId = st.nextId
           /\ board = BoardOf(st)
    /\ index = Len(root) + 1
    /\ owner = {}
    /\ pc = "parsed"
    /\ md = EmptyString
    /\ board2 = EmptyBoard
    /\ md2 = EmptyString
    /\ target = NoId
    /\ calls = <<>>
    /\ ItemIdle
    /\ UiIdle

AddItems ==
    /\ pc = "parsed"
    /\ \E id \in DOMAIN board.heap, shouldPrepend \in BOOLEAN, c \in CheckChars :
           LET given == Child("item", nextId,
                              ItemData(NewItemText(nextId), c # " ", c))
           IN  /\ \A k \in 1..Len(board.heap[id].children) :
                      ~IsNewItem(board.heap[id].children[k])
               /\ board' = addItems(board, id, <<given>>, shouldPrepend)
               /\ calls' = <<[lane |-> id, item |-> given,
                              shouldPrepend |-> shouldPrepend]>>
               /\ target' = id
    /\ nextId' = nextId + 1
    /\ UNCHANGED <<uiVars, root, index, lanes, heap, archive, laneStack, owner, pc,
                   md, board2, md2, itemVars>>

NextAdd ==
    \/ AddItems
    \/ Save
    \/ Load

SpecAdd == InitAdd /\ [][NextAdd]_vars

\* -------------------------------------------------------------------- C13
\* C13: an item added through a lane's addItems is checked with the done
\* character when the lane's shouldMarkItemsComplete is set at the call, and
\* unchecked with ' ' when it is not, whatever state the item came in.
AddedItemMarked ==
    (pc = "parsed" /\ calls # <<>>) =>
        LET call == calls[1]
            lane == board.heap[call.lane]
            added == {k \in 1..Len(lane.children) :
                          lane.children[k].id = call.item.id}
        IN  /\ Cardinality(added) = 1
            /\ \A k \in added :
                   /\ lane.children[k].data.checked = lane.shouldMarkItemsComplete
                   /\ lane.children[k].data.checkChar =
                          IF lane.shouldMarkItemsComplete THEN TaskStatusDone ELSE " "

\* An unchecked item was added to a lane that marks its items complete, and a
\* checked one to a lane that does not.
AddedItemMarkedWitness ==
    /\ pc = "parsed"
    /\ calls # <<>>
    /\ board.heap[calls[1].lane].shouldMarkItemsComplete
    /\ ~calls[1].item.data.checked
    /\ \E id \in DOMAIN board.heap :
           /\ ~board.heap[id].shouldMarkItemsComplete
           /\ \E k \in 1..Len(board.heap[id].children) :
                  IsNewItem(board.heap[id].children[k])

\* -------------------------------------------------------------------- C19
\* The texts of the items each lane owns, lane by lane in pre-order.
OwnedTexts(b) ==
    [k \in 1..Len(PreOrder(b.heap, b.children)) |->
        ItemTexts(getNestedItems(b.heap[PreOrder(b.heap, b.children)[k]]))]

\* C19: after addItems calls on a parsed board, saving and loading puts every
\* item under the lane that owned it, in the same order among that lane's
\* items.
OwnershipSurvivesSaveLoad ==
    pc = "loaded" => OwnedTexts(board2) = OwnedTexts(board)

\* -------------------------------------------------------- work on one item
\* The contents an edit of the item can hand to updateItemContent: the raw
\* title as it is, with a token more, or with its last token gone.
Edits(data) ==
    {data.titleRaw}
        \cup {Append(data.titleRaw, t) : t \in {u \in Tokens : Len(data.titleRaw) < MaxTokens}}
        \cup {SubSeq(data.titleRaw, 1, Len(data.titleRaw) - 1) : k \in {1} \cap 1..Len(data.titleRaw)}

\* SpecItem: a list item of a document is parsed under some settings; its
\* data is written with itemToMd and parsed again, or its content is replaced
\* with updateItemContent, in any order and any number of times.
InitItem ==
    /\ settings \in Settings
    /\ source \in {ItemSource(c, text) : c \in CheckChars, text \in Texts}
    /\ itemData = NoItemData
    /\ itemMd = NoSource
    /\ UiIdle
    /\ pc = "source"
    /\ root = <<>>
    /\ ParserIdle
    /\ board = EmptyBoard
    /\ md = EmptyString
    /\ board2 = EmptyBoard
    /\ md2 = EmptyString
    /\ target = NoId
    /\ calls = <<>>

\* listItemToItemData on the item of the document.
Decompose ==
    /\ pc = "source"
    /\ itemData' = decompose(settings, source)
    /\ pc' = "item"
    /\ UNCHANGED <<uiVars, parserVars, board, md, board2, md2, target, calls,
                   settings, source, itemMd>>

\* itemToMd on the item.
Compose ==
    /\ pc = "item"
    /\ itemMd' = compose(itemData)
    /\ pc' = "composed"
    /\ UNCHANGED <<uiVars, parserVars, board, md, board2, md2, target, calls,
                   settings, source, itemData>>

\* The line itemToMd wrote is parsed: listItemToItemData on it.
Redecompose ==
    /\ pc = "composed"
    /\ source' = itemMd
    /\ itemData' = decompose(settings, itemMd)
    /\ itemMd' = NoSource
    /\ pc' = "item"
    /\ UNCHANGED <<uiVars, parserVars, board, md, board2, md2, target, calls, settings>>

\* updateItemContent(stateManager, item, newContent)
UpdateItem ==
    /\ pc = "item"
    /\ \E newContent \in Edits(itemData) :
           /\ source' = UpdateMd(itemData, newContent)
           /\ itemData' = updateItemContent(settings, itemData, newContent)
    /\ UNCHANGED <<uiVars, parserVars, board, md, board2, md2, target, calls,
                   settings, itemMd, pc>>

NextItem ==
    \/ Decompose
    \/ Compose
    \/ Redecompose
    \/ UpdateItem

SpecItem == InitItem /\ [][NextItem]_vars

\* -------------------------------------------------------------------- C14
HasCaret(text) == \E p \in 1..Len(text) : text[p].kind = "caret"

\* The data holds the id, its raw title is free of the block-id token and the
\* line itemToMd writes for it has the token once, as its last token.
BlockIdHeld(data, id) ==
    /\ data.blockId = id
    /\ Caret(id) \notin Range(data.titleRaw)
    /\ LET line == compose(data).text
       IN  /\ Occurrences(line, Caret(id)) = 1
           /\ line[Len(line)] = Caret(id)

\* C14: for an item with a block id, after any sequence of listItemToItemData,
\* updateItemContent and itemToMd, titleRaw is without the block-id token,
\* blockId keeps the id and the composed line has the token exactly once, at
\* its end: it is so after the item of the document is parsed, and every
\* later step keeps it so.
BlockIdOnce ==
    [][/\ (/\ pc = "source"
           /\ EndsWithBlockId(source.text)
           /\ ~HasCaret(removeBlockId(source.text)))
          => BlockIdHeld(itemData', source.text[Len(source.text)].value)
       /\ (/\ pc # "source"
           /\ itemData.blockId # Undefined
           /\ BlockIdHeld(itemData, itemData.blockId))
          => BlockIdHeld(itemData', itemData.blockId)]_vars

\* -------------------------------------------------------------------- C15
SameItemData(a, b) ==
    /\ a.titleRaw = b.titleRaw
    /\ a.title = b.title
    /\ a.blockId = b.blockId
    /\ a.checked = b.checked
    /\ a.checkChar = b.checkChar
    /\ a.tags = b.tags
    /\ a.dateStr = b.dateStr
    /\ a.timeStr = b.timeStr

\* C15: under unchanged settings, parsing the line itemToMd writes for an
\* item's data gives the same titleRaw, title, blockId, checked, checkChar,
\* tags, dateStr and timeStr, and so does updateItemContent with the item's
\* own titleRaw.
ComposeInvertsDecompose ==
    [][/\ (pc = "composed" /\ pc' = "item") => SameItemData(itemData', itemData)
       /\ (/\ pc = "item"
           /\ pc' = "item"
           /\ source' = UpdateMd(itemData, itemData.titleRaw))
          => SameItemData(itemData', itemData)]_vars

\* -------------------------------------------------------------------- C16
\* C16: an inline field extracted from the title is kept in inlineMetadata
\* exactly when its key is no reserved task field, or the title has no line
\* break, or the field ends before the first line break (its end offset at
\* most the offset of the break), wherever the first line break is.
FieldKeptRule ==
    pc = "item" =>
        LET title == TitleOf(settings, source)
            firstLineEnd == IndexOfNewLine(title)
        IN  \A f \in Range(extractInlineFields(title)) :
                f \in Range(itemData.inlineMetadata)
                    <=> \/ f.key \notin taskFields
                        \/ firstLineEnd = -1
                        \/ f.end <= firstLineEnd

\* -------------------------------------------------------------------- C17
\* C17: the offsets of every inline field stored in inlineMetadata index the
\* item's titleRaw: titleRaw[start..end) is the field's text.
FieldOffsetsInTitleRaw ==
    pc = "item" =>
        \A f \in Range(itemData.inlineMetadata) :
            /\ f.end <= Len(itemData.titleRaw)
            /\ SubSeq(itemData.titleRaw, f.start + 1, f.end) = <<FieldTok(f.key)>>

\* -------------------------------------------------------------------- C18
\* The hashtag nodes outside a code fence with the name v.
HashtagNodes(text, v) == {p \in 1..Len(text) : text[p] = Hashtag(v)}

\* C18: metadata.tags is in ascending order of the default comparator and
\* holds one entry for each hashtag node outside a code fence, whatever the
\* order of the hashtags in the text.
TagsSortedOnePerHashtag ==
    pc = "item" =>
        /\ \A j, k \in 1..Len(itemData.tags) :
               j < k => ~defaultSort(itemData.tags[k], itemData.tags[j])
        /\ \A v \in TagNames :
               Occurrences(itemData.tags, v) = Cardinality(HashtagNodes(source.text, v))
        /\ Range(itemData.tags) \subseteq TagNames

\* The text parsed has two hashtags in descending order, the tags are ascending.
TagsSortedOnePerHashtagWitness ==
    /\ pc = "item"
    /\ itemData.tags = <<1, 2>>
    /\ \E p, q \in 1..Len(source.text) :
           /\ p < q
           /\ source.text[p] = Hashtag(2)
           /\ source.text[q] = Hashtag(1)

\* ------------------------------------------------------------------- C22
\* The chain of ancestors of a lane, from its top-level ancestor down to the
\* lane itself.
RECURSIVE AncestorChain(_, _)
AncestorChain(heap_, id) ==
    IF heap_[id].parentId = NoId THEN <<id>>
    ELSE AncestorChain(heap_, heap_[id].parentId) \o <<id>>

ProcessedHeadings == {g \in 1..(index - 1) : IsHeading(g) /\ ~ArchivePattern(g)}

StackLanes == [k \in 1..Len(laneStack) |-> laneStack[k].lane]

\* C22: after each heading processed, the lane stack has strictly increasing
\* levels from bottom to top, its top is the lane of the most recent
\* non-archive heading, and its entries are exactly that lane's chain of
\* ancestors, from the top-level lane down to the lane itself.
LaneStackIsAncestorChain ==
    (index > 1 /\ index <= Len(root) + 1 /\ IsHeading(index - 1)
         /\ ProcessedHeadings # {}) =>
        /\ \A k \in 1..(Len(laneStack) - 1) :
               laneStack[k].level < laneStack[k + 1].level
        /\ laneStack # <<>>
        /\ laneStack[Len(laneStack)].lane = LaneOfHeading(Max(ProcessedHeadings))
        /\ StackLanes = AncestorChain(heap, LaneOfHeading(Max(ProcessedHeadings)))

\* ------------------------------------------------------------------- C25
\* A child of the result stands where the child of the input stood, with the
\* same type and id; a nested lane reference is the same reference.
SameChildButData(old, new) ==
    /\ new.type = old.type
    /\ new.id = old.id
    /\ isLane(old) => new = old

SameLaneButItemData(old, new) ==
    /\ [new EXCEPT !.children = <<>>] = [old EXCEPT !.children = <<>>]
    /\ Len(new.children) = Len(old.children)
    /\ \A k \in 1..Len(old.children) : SameChildButData(old.children[k], new.children[k])

SameBoardButItemData(old, new) ==
    /\ new.children = old.children
    /\ new.archive = old.archive
    /\ DOMAIN new.heap = DOMAIN old.heap
    /\ \A id \in DOMAIN old.heap : SameLaneButItemData(old.heap[id], new.heap[id])

\* C25: reparseBoard, and updateItemContent inside it, change item data only:
\* every item keeps its id and its position, the number and order of the
\* children of every lane, the lane ids and lane data, the nested lanes and
\* the archive are as in the input, and the input board is not changed.
ReparseChangesItemDataOnly ==
    [][Reparse =>
          /\ board' = board
          /\ (pc' = "reparsed") => SameBoardButItemData(board, board2')]_vars

\* A board with an item and a nested lane in one top-level lane was re-parsed,
\* and updateItemContent was called for the item.
ReparseChangesItemDataOnlyWitness ==
    /\ pc = "reparsed"
    /\ calls # <<>>
    /\ \E k \in 1..Len(board2.children) :
           /\ getNestedItems(board2.heap[board2.children[k]]) # <<>>
           /\ getNestedLanes(board2.heap[board2.children[k]]) # <<>>

\* ---------------------------------------------------- collapsing the lanes
HeadingShapes == {Heading(d, "A") : d \in 1..MaxDepth}

HeadingDocuments ==
    {Document(s) : s \in UNION {[1..n -> HeadingShapes] : n \in 0..MaxBlocks}}

Call(op, id, key) == [op |-> op, lane |-> id, key |-> key]

Shown == UiState(viewState, boardSettings)

\* setState with the state a callback returns.
SetState(st) ==
    /\ viewState' = st.view
    /\ boardSettings' = st.settings

\* SpecCollapse: a board parsed from a document is shown; the headers of the
\* lanes on screen are clicked and keys are pressed on them.  calls holds the
\* last call.
InitCollapse ==
    /\ root \in HeadingDocuments
    /\ LET st == RunBlocks(InitialParserState, root, 1)
       IN  /\ lanes = st.lanes
           /\ heap = st.heap
           /\ archive = st.archive
           /\ laneStack = st.laneStack
           /\ nextId = st.nextId
           /\ board = BoardOf(st)
    /\ index = Len(root) + 1
    /\ owner = {}
    /\ pc = "parsed"
    /\ md = EmptyString
    /\ board2 = EmptyBoard
    /\ md2 = EmptyString
    /\ target = NoId
    /\ calls = <<>>
    /\ ItemIdle
    /\ UiIdle

OnScreen(id) == pc = "parsed" /\ IsRendered(viewState, board, id)

\* The header of a lane without nested lanes is given toggleIsCollapsed.
ToggleIsCollapsed ==
    \E id \in DOMAIN board.heap :
        /\ OnScreen(id)
        /\ ~isParentLane(board.heap[id])
        /\ SetState(toggleIsCollapsed(Shown, LaneIndex(board, id)))
        /\ calls' = <<Call("toggleIsCollapsed", id, "")>>
        /\ UNCHANGED <<parserVars, pc, board, md, board2, md2, target, itemVars>>

\* The header of a lane with nested lanes is given toggleHierarchicalCollapse.
ToggleHierarchicalCollapse ==
    \E id \in DOMAIN board.heap :
        /\ OnScreen(id)
        /\ isParentLane(board.heap[id])
        /\ SetState(toggleHierarchicalCollapse(Shown, board.heap[id],
                                               LaneIndex(board, id)))
        /\ calls' = <<Call("toggleHierarchicalCollapse", id, "")>>
        /\ UNCHANGED <<parserVars, pc, board, md, board2, md2, target, itemVars>>

\* A key goes down on the element of a lane.
KeyDown ==
    \E id \in DOMAIN board.heap, key \in Keys, targetIsElement \in BOOLEAN :
        /\ OnScreen(id)
        /\ SetState(handleKeyDown(Shown, board.heap[id], LaneIndex(board, id),
                                  key, targetIsElement))
        /\ calls' = <<Call("handleKeyDown", id, key)>>
        /\ UNCHANGED <<parserVars, pc, board, md, board2, md2, target, itemVars>>

NextCollapse == ToggleIsCollapsed \/ ToggleHierarchicalCollapse \/ KeyDown

SpecCollapse == InitCollapse /\ [][NextCollapse]_vars

\* ------------------------------------------------------------------- C23
\* C23: toggling the standard collapse of one lane changes the collapsed
\* state of that lane only: after toggleIsCollapsed on a lane, every other
\* lane of the board, top-level or nested, has the isCollapsed it had.
OnlyThatLaneCollapsed ==
    [][(calls' # <<>> /\ calls'[1].op = "toggleIsCollapsed") =>
          \A other \in DOMAIN board.heap \ {calls'[1].lane} :
              isCollapsed(viewState', board, other)
                  = isCollapsed(viewState, board, other)]_vars

\* ------------------------------------------------------------------- C24
SameCollapse(a, b) ==
    /\ \A i \in 0..MaxBlocks : ArrayAt(a.listCollapse, i) = ArrayAt(b.listCollapse, i)
    /\ \A id \in DOMAIN board.heap :
           EntryAt(a.hierarchicalCollapse, id) = EntryAt(b.hierarchicalCollapse, id)

ToggledTwice(lane, laneIndex) ==
    toggleHierarchicalCollapse(toggleHierarchicalCollapse(Shown, lane, laneIndex),
                               lane, laneIndex)

Node(type, value, children) == [type |-> type, value |-> value, children |-> children]

LeafNodes ==
    {Node("text", 0, <<>>), Node("fence", 0, <<>>), Node("date", 1, <<>>),
     Node("time", 1, <<>>), Node("blockid", 1, <<>>)}
    \cup {Node("hashtag", v, <<>>) : v \in TagNames}

\* A link to a file, a link to no file, and an emphasis, around one node.
ParentNodes ==
    {Node(type, 1, <<n>>) : type \in {"link", "emphasis"}, n \in LeafNodes}
    \cup {Node("link", 0, <<n>>) : n \in LeafNodes}

ItemNodes ==
    {Node("listItem", 0, <<Node("paragraph", 0, children)>>) :
        children \in SeqsUpTo(LeafNodes \cup ParentNodes, MaxTokens)}

\* What the callback has gathered: its calls (path of the node, and whether
\* a case matched), the metadata, and the nodes whose range is marked in title.
Gathered(calls_, blockId, tags, dateStr, timeStr, fileAccessor, marked) ==
    [calls |-> calls_, blockId |-> blockId, tags |-> tags, dateStr |-> dateStr,
     timeStr |-> timeStr, fileAccessor |-> fileAccessor, marked |-> marked]

NothingGathered == Gathered(<<>>, Undefined, <<>>, Undefined, Undefined, Undefined, <<>>)

\* (node) => node.type !== 'paragraph'
VisitTest(node) == node.type # "paragraph"

StartsWithFence(parent) ==
    parent.children # <<>> /\ parent.children[1].type = "fence"

\* The callback of the second visit: the state it leaves and what it returns.
Visitor(acc, node, path, parent, st) ==
    LET matched(a) == [acc |-> [a EXCEPT !.calls = Append(@, [path |-> path, matched |-> TRUE])],
                       result |-> "true"]
        mark(a, move) == IF move THEN [a EXCEPT !.marked = Append(@, path)] ELSE a
    IN  IF node.type = "blockid" THEN matched([acc EXCEPT !.blockId = node.value])
        ELSE IF node.type = "hashtag" /\ ~StartsWithFence(parent)
        THEN matched(mark([acc EXCEPT !.tags = Append(@, node.value)], st.moveTags))
        ELSE IF node.type \in {"date", "dateLink"}
        THEN matched(mark([acc EXCEPT !.dateStr = node.value], st.moveDates))
        ELSE IF node.type = "time"
        THEN matched(mark([acc EXCEPT !.timeStr = node.value], st.moveDates))
        ELSE IF node.type \in {"embedWikilink", "wikilink", "embedLink"}
        THEN matched([acc EXCEPT !.fileAccessor = node.value])
        ELSE IF node.type = "link" /\ node.value # 0
        THEN matched([acc EXCEPT !.fileAccessor = node.value])
        ELSE [acc |-> [acc EXCEPT !.calls = Append(@, [path |-> path, matched |-> FALSE])],
              result |-> "undefined"]

\* visit of unist-util-visit: the nodes in pre-order, the callback on those
\* that pass the test.  Of the callback's results only 'skip' keeps the walk
\* out of the node's children (false ends the walk; the callback above
\* returns neither); true and undefined go on into the children.
RECURSIVE visit(_, _, _, _, _)
RECURSIVE VisitChildren(_, _, _, _, _)
visit(acc, node, path, parent, st) ==
    LET step == IF VisitTest(node) THEN Visitor(acc, node, path, parent, st)
                ELSE [acc |-> acc, result |-> "undefined"]
    IN  IF step.result = "skip" THEN step.acc
        ELSE VisitChildren(step.acc, node, path, 1, st)

VisitChildren(acc, node, path, k, st) ==
    IF k > Len(node.children) THEN acc
    ELSE VisitChildren(visit(acc, node.children[k], Append(path, k), node, st),
                       node, path, k + 1, st)

\* SpecVisit: listItemToItemData's second visit runs on a list item.  source
\* is the item node, calls the calls of the callback, itemData what it
\* gathered.
InitVisit ==
    /\ settings \in {st \in Settings : ~st.moveTaskData /\ ~st.moveMetadata}
    /\ source \in ItemNodes
    /\ itemData = NothingGathered
    /\ itemMd = NoSource
    /\ UiIdle
    /\ pc = "node"
    /\ root = <<>>
    /\ ParserIdle
    /\ board = EmptyBoard
    /\ md = EmptyString
    /\ board2 = EmptyBoard
    /\ md2 = EmptyString
    /\ target = NoId
    /\ calls = <<>>

VisitItem ==
    /\ pc = "node"
    /\ LET gathered == visit(NothingGathered, source, <<>>, source, settings)
       IN  /\ itemData' = gathered
           /\ calls' = gathered.calls
    /\ pc' = "visited"
    /\ UNCHANGED <<uiVars, parserVars, board, md, board2, md2, target,
                   settings, source, itemMd>>

NextVisit == VisitItem

SpecVisit == InitVisit /\ [][NextVisit]_vars

\* ------------------------------------------------------------------- C21
IsBelow(path, ancestor) ==
    /\ Len(path) > Len(ancestor)
    /\ SubSeq(path, 1, Len(ancestor)) = ancestor

\* C21: in the metadata visit, once a node matches a dispatch case no
\* descendant of that node is visited, so nothing nested inside a matched
\* node is counted or marked for deletion.
NoDescentBelowMatch ==
    pc = "visited" =>
        \A i \in 1..Len(calls) :
            calls[i].matched =>
                /\ \A j \in 1..Len(calls) : ~IsBelow(calls[j].path, calls[i].path)
                /\ \A m \in 1..Len(itemData.marked) :
                       ~IsBelow(itemData.marked[m], calls[i].path)
====
